---- MODULE Spec2Model ----
(***************************************************************************)
(* Model of open-library-extractor (src/src/main.rs): the two passes over  *)
(* an Open Library dump and the author emission that follows them.         *)
(*                                                                         *)
(* Text that the program slices, compares by prefix or orders (identifier  *)
(* paths, author keys, index keys, publish dates) is a sequence of UTF-8   *)
(* byte values; text that is only compared for equality or passed through  *)
(* (type tags, names, titles) is a TLA+ string.  An Option is a sequence   *)
(* of length 0 (None) or 1 (Some).                                         *)
(***************************************************************************)
EXTENDS Integers, Sequences, FiniteSets, TLC

VARIABLES
    header,           \* the dump's first line, as its fields
    dump,             \* the rows after the header, each a sequence of fields
    overflow_checks,  \* whether the build checks integer overflow (dev profile)
    pc,               \* where main() is
    pos,              \* records the current reader has yielded
    db,               \* committed content of the database authors-ids-names
    wtxn,             \* the write transaction's view of the database, if open
    rtxn,             \* the read transaction's snapshot of the database, if open
    cursor,           \* entries the iterator of line 175 has yielded
    out               \* lines written to the writer, in order

vars == <<header, dump, overflow_checks, pc, pos, db, wtxn, rtxn, cursor, out>>

None == <<>>
Some(x) == <<x>>

(***************************************************************************)
(* Byte strings.                                                           *)
(***************************************************************************)
AuthorsPrefix == <<47, 97, 117, 116, 104, 111, 114, 115, 47>>   \* "/authors/"
BooksPrefix == <<47, 98, 111, 111, 107, 115, 47>>               \* "/books/"
WorksPrefix == <<47, 119, 111, 114, 107, 115, 47>>              \* "/works/"
EditionType == "/type/edition"

\* str::strip_prefix: the rest of s after p, or None when s does not start with p.
StripPrefix(s, p) ==
    IF Len(s) >= Len(p) /\ SubSeq(s, 1, Len(p)) = p
    THEN Some(SubSeq(s, Len(p) + 1, Len(s)))
    ELSE None

\* str::is_char_boundary: index i (0-based) of s starts a character or ends s.
IsCharBoundary(s, i) ==
    \/ i = 0
    \/ i = Len(s)
    \/ i < Len(s) /\ ~(s[i + 1] >= 128 /\ s[i + 1] < 192)

\* str::get(start..): the suffix from byte start, or None off a boundary.
GetFrom(s, start) ==
    IF start <= Len(s) /\ IsCharBoundary(s, start)
    THEN Some(SubSeq(s, start + 1, Len(s)))
    ELSE None

IsDigit(b) == b >= 48 /\ b <= 57

RECURSIVE DigitsValue(_)
DigitsValue(s) ==
    IF s = <<>> THEN 0
    ELSE DigitsValue(SubSeq(s, 1, Len(s) - 1)) * 10 + (s[Len(s)] - 48)

\* <u32 as FromStr>::from_str on at most 4 bytes (no overflow possible): an
\* optional '+', then one or more decimal digits.
ParseU32(s) ==
    IF s = <<>> THEN None
    ELSE LET digits == IF s[1] = 43 THEN Tail(s) ELSE s
         IN  IF digits # <<>> /\ \A i \in 1..Len(digits) : IsDigit(digits[i])
             THEN Some(DigitsValue(digits))
             ELSE None

\* The closure of lines 150-152 on a present publish_date whose length is at
\* least 4, or whose s.len() - 4 wrapped around (no overflow checks): a start
\* past the end makes str::get return None.
YearOf(s) ==
    IF Len(s) < 4 THEN None
    ELSE LET tail == GetFrom(s, Len(s) - 4)
         IN  IF tail = None THEN None ELSE ParseU32(tail[1])

\* Whether s.len() - 4 (usize) overflows.
SubOverflows(s) == Len(s) < 4

\* Byte-wise lexicographic order, a proper prefix first: the key order of the
\* database.
RECURSIVE LexLess(_, _)
LexLess(a, b) ==
    IF b = <<>> THEN FALSE
    ELSE IF a = <<>> THEN TRUE
    ELSE IF a[1] # b[1] THEN a[1] < b[1]
    ELSE LexLess(Tail(a), Tail(b))

(***************************************************************************)
(* JSON payloads.  Field 4 is a text; serde_json either fails on it or     *)
(* yields a value.  A payload is [valid, obj]: valid is FALSE for a text   *)
(* that is no JSON object, and obj maps the object's keys to tagged        *)
(* values [t, v] with t in "str", "num", "arr", "obj", "null".             *)
(***************************************************************************)
Str(s) == [t |-> "str", v |-> s]
Num(n) == [t |-> "num", v |-> n]
Arr(a) == [t |-> "arr", v |-> a]
Obj(f) == [t |-> "obj", v |-> f]
NotJson == [valid |-> FALSE, obj |-> <<>>]
Json(f) == [valid |-> TRUE, obj |-> f]

Has(obj, k) == k \in DOMAIN obj /\ obj[k].t # "null"
\* An optional field deserializes: absent, null, or of the field's type.
OptOk(obj, k, tag) == k \in DOMAIN obj => obj[k].t \in {tag, "null"}
Opt(obj, k) == IF Has(obj, k) THEN Some(obj[k].v) ELSE None

\* serde_json::from_str::<InAuthor>: Some(author) for Ok, None for Err.
ParseInAuthor(p) ==
    IF p.valid /\ "name" \in DOMAIN p.obj /\ p.obj["name"].t = "str"
    THEN Some([name |-> p.obj["name"].v])
    ELSE None

\* serde_json::from_str::<InBook>: Some(book) for Ok, None for Err.
ParseInBook(p) ==
    IF /\ p.valid
       /\ "title" \in DOMAIN p.obj /\ p.obj["title"].t = "str"
       /\ OptOk(p.obj, "publishers", "arr")
       /\ OptOk(p.obj, "physical_format", "str")
       /\ OptOk(p.obj, "subtitle", "str")
       /\ OptOk(p.obj, "number_of_pages", "num")
       /\ OptOk(p.obj, "publish_date", "str")
       /\ OptOk(p.obj, "authors", "arr")
       /\ (Has(p.obj, "authors") =>
              \A i \in 1..Len(p.obj["authors"].v) :
                  "key" \in DOMAIN p.obj["authors"].v[i])
       /\ OptOk(p.obj, "identifiers", "obj")
       /\ (Has(p.obj, "identifiers") =>
              OptOk(p.obj["identifiers"].v, "goodreads", "arr"))
       /\ OptOk(p.obj, "subjects", "arr")
    THEN Some([title |-> p.obj["title"].v,
               number_of_pages |-> Opt(p.obj, "number_of_pages"),
               publish_date |-> Opt(p.obj, "publish_date"),
               authors |-> Opt(p.obj, "authors"),
               identifiers |-> Opt(p.obj, "identifiers"),
               subjects |-> Opt(p.obj, "subjects")])
    ELSE None

(***************************************************************************)
(* The database.  A view is a function from keys to values.                *)
(***************************************************************************)
EmptyDb == [k \in {} |-> ""]

\* Put with the insert-if-absent bug: an existing entry is kept.
PutKeepFirst(view, key, value) ==
    [k \in DOMAIN view \cup {key} |-> IF k \in DOMAIN view THEN view[k] ELSE value]

\* Database::put: an upsert.
Put(view, key, value) ==
    [k \in DOMAIN view \cup {key} |-> IF k = key THEN value ELSE view[k]]

\* Database::get: Some(value), or None for a key that is not there.
Get(view, key) == IF key \in DOMAIN view THEN Some(view[key]) ELSE None

\* SortedKeys with the iteration reversed (rev_iter for iter).
RECURSIVE SortedKeysDesc(_)
SortedKeysDesc(keys) ==
    IF keys = {} THEN <<>>
    ELSE LET most == CHOOSE k \in keys : \A j \in keys \ {k} : LexLess(j, k)
         IN  <<most>> \o SortedKeysDesc(keys \ {most})

\* The keys of a view in the order Database::iter yields them.
RECURSIVE SortedKeys(_)
SortedKeys(keys) ==
    IF keys = {} THEN <<>>
    ELSE LET least == CHOOSE k \in keys : \A j \in keys \ {k} : LexLess(k, j)
         IN  <<least>> \o SortedKeys(keys \ {least})

(***************************************************************************)
(* Pass 2's derivations.                                                   *)
(***************************************************************************)
\* ResolveAuthors stopping at the first reference that does not resolve
\* (map_while for flat_map).
RECURSIVE ResolveAuthorsStop(_, _)
ResolveAuthorsStop(refs, view) ==
    IF refs = <<>> THEN <<>>
    ELSE LET key == StripPrefix(Head(refs)["key"], AuthorsPrefix)
             hit == IF key = None THEN None ELSE Get(view, key[1])
         IN  IF hit = None THEN <<>> ELSE hit \o ResolveAuthorsStop(Tail(refs), view)

\* Lines 139-143: the names of the references that resolve, in listing order.
RECURSIVE ResolveAuthors(_, _)
ResolveAuthors(refs, view) ==
    IF refs = <<>> THEN <<>>
    ELSE LET key == StripPrefix(Head(refs)["key"], AuthorsPrefix)
             hit == IF key = None THEN None ELSE Get(view, key[1])
         IN  hit \o ResolveAuthors(Tail(refs), view)

\* Lines 145-148.
Goodreads(book) ==
    IF book.identifiers = None THEN <<>>
    ELSE IF Has(book.identifiers[1], "goodreads")
         THEN book.identifiers[1]["goodreads"].v
         ELSE <<>>

\* Lines 150-152, when the subtraction does not panic.
PublishYear(book) ==
    IF book.publish_date = None THEN None ELSE YearOf(book.publish_date[1])

\* Whether line 151 panics on this book in this build.
PublishYearPanics(book, checks) ==
    checks /\ book.publish_date # None /\ SubOverflows(book.publish_date[1])

OptField(k, o) == IF o = None THEN <<>> ELSE k :> o[1]
VecField(k, s) == IF s = <<>> THEN <<>> ELSE k :> s

\* Serialization of OutObject::Book (lines 58-80): the keys of the JSON line.
BookLine(id, book, authors, year, goodreads) ==
    ("type" :> "book") @@ ("id" :> id) @@ ("name" :> book.title)
    @@ VecField("authors", authors)
    @@ OptField("publish_year", year)
    @@ OptField("number_of_pages", book.number_of_pages)
    @@ VecField("subjects", IF book.subjects = None THEN <<>> ELSE book.subjects[1])
    @@ VecField("goodreads", goodreads)

\* Serialization of OutObject::Author (lines 81-84).
AuthorLine(id, name) ==
    ("type" :> "author") @@ ("id" :> id) @@ ("name" :> name)

(***************************************************************************)
(* One iteration of each loop.                                             *)
(***************************************************************************)
\* ReadRecord of a reader built with flexible(true): no field count check.
ReadRecordFlexible(h, d, p) == IF p = Len(d) THEN "eof" ELSE "ok"

\* Reader::read_record (has_headers, not flexible): "eof" at the end, "err"
\* for a record whose field count differs from the header's, else "ok".
ReadRecord(h, d, p) ==
    IF p = Len(d) THEN "eof"
    ELSE IF Len(d[p + 1]) # Len(h) THEN "err"
    ELSE "ok"

\* record[i] panics when the record has no field i (0-based).
Missing(row, i) == Len(row) < i + 1

\* Whether the body of the loop of lines 116-122 panics on row.
Pass1Panics(row) ==
    \/ Missing(row, 1)
    \/ StripPrefix(row[2], AuthorsPrefix) # None /\ Missing(row, 4)

\* Pass1Row indexing a payload that fails to parse under the default name
\* (unwrap_or_default for if let Ok).
Pass1RowDefaultName(view, row) ==
    LET author_id == StripPrefix(row[2], AuthorsPrefix)
    IN  IF author_id = None THEN view
        ELSE LET author == ParseInAuthor(row[5])
             IN  Put(view, author_id[1], IF author = None THEN "" ELSE author[1].name)

\* The body of the loop of lines 116-122: the write transaction's view after row.
Pass1Row(view, row) ==
    LET author_id == StripPrefix(row[2], AuthorsPrefix)
    IN  IF author_id = None THEN view
        ELSE LET author == ParseInAuthor(row[5])
             IN  IF author = None THEN view
                 ELSE Put(view, author_id[1], author[1].name)

\* Whether the body of the loop of lines 135-171 panics on row in this build.
Pass2Panics(row, checks) ==
    /\ row[1] = EditionType
    /\ \/ Missing(row, 1)
       \/ /\ StripPrefix(row[2], BooksPrefix) # None
          /\ \/ Missing(row, 4)
             \/ /\ ParseInBook(row[5]) # None
                /\ PublishYearPanics(ParseInBook(row[5])[1], checks)

\* Pass2Row without the test of line 136 on the record type.
Pass2RowAnyType(view, row) ==
    LET book_id == StripPrefix(row[2], BooksPrefix)
    IN  IF book_id = None THEN <<>>
        ELSE LET parsed == ParseInBook(row[5])
             IN  IF parsed = None THEN <<>>
                 ELSE LET book == parsed[1]
                          refs == IF book.authors = None THEN <<>>
                                  ELSE book.authors[1]
                      IN  <<BookLine(book_id[1], book,
                                     ResolveAuthors(refs, view),
                                     PublishYear(book),
                                     Goodreads(book))>>

\* The body of the loop of lines 135-171: the lines it writes for row.
Pass2Row(view, row) ==
    IF row[1] # EditionType THEN <<>>
    ELSE LET book_id == StripPrefix(row[2], BooksPrefix)
         IN  IF book_id = None THEN <<>>
             ELSE LET parsed == ParseInBook(row[5])
                  IN  IF parsed = None THEN <<>>
                      ELSE LET book == parsed[1]
                               refs == IF book.authors = None THEN <<>>
                                       ELSE book.authors[1]
                           IN  <<BookLine(book_id[1], book,
                                          ResolveAuthors(refs, view),
                                          PublishYear(book),
                                          Goodreads(book))>>

(***************************************************************************)
(* Inputs.                                                                 *)
(***************************************************************************)
MaxRows == 2      \* rows of a dump
MaxAuthors == 2   \* author rows before the edition row (SpecRefs)
MaxRefs == 3      \* author references of an edition (SpecRefs)

BoundedSeq(S, n) == UNION {[1..k -> S] : k \in 0..n}

Header5 == <<"type", "key", "revision", "last_modified", "json">>
Header4 == <<"type", "key", "revision", "last_modified">>

Row(type, path, payload) == <<type, path, "1", "2008-04-01T03:28:50", payload>>

KeyB == AuthorsPrefix \o <<66>>            \* "/authors/B"
KeyAB == AuthorsPrefix \o <<65, 66>>       \* "/authors/AB"
KeyRaw == <<65, 66>>                       \* "AB", no prefix
PathM == BooksPrefix \o <<77>>             \* "/books/M"
PathW == WorksPrefix \o <<87>>             \* "/works/W"

Named(n) == Json("name" :> Str(n))
Titled == Json("title" :> Str("Book"))
Both == Json(("name" :> Str("Jane Doe")) @@ ("title" :> Str("Book")))
Ref(k) == "key" :> k
WithRefs(refs) == Json(("title" :> Str("Book")) @@ ("authors" :> Arr(refs)))
Dated(d) == Json(("title" :> Str("Book")) @@ ("publish_date" :> Str(d)))
Full ==
    Json(("title" :> Str("Book"))
         @@ ("authors" :> Arr(<<Ref(KeyB), Ref(KeyRaw), Ref(KeyAB)>>))
         @@ ("publish_date" :> Str(<<77, 97, 114, 99, 104, 32, 49, 57, 56, 55>>))
         @@ ("number_of_pages" :> Num(320))
         @@ ("subjects" :> Arr(<<"Fiction">>))
         @@ ("identifiers" :> Obj("goodreads" :> Arr(<<"1234">>))))

AuthorRows ==
    { Row("/type/author", KeyB, Named("Jane Doe")),
      Row("/type/author", KeyB, Named("Joan Roe")),
      Row("/type/author", KeyAB, Named("Jane Doe")),
      Row("/type/author", KeyB, NotJson),
      Row("/type/work", KeyAB, Named("Joan Roe")) }

MainRows ==
    AuthorRows \cup
    { Row("/type/author", KeyAB, Json("name" :> Num(7))),
      Row("/type/work", PathW, Both),
      Row("/type/work", PathM, Both),
      Row("/type/edition", KeyB, Both),
      Row("/type/edition", PathW, Titled),
      Row("/type/edition", PathM, Titled),
      Row("/type/edition", PathM, Full),
      Row("/type/edition", PathM, Dated(<<57, 57>>)),
      Row("/type/edition", PathM, NotJson),
      Row("/type/edition", PathM, Json("authors" :> Arr(<<Ref(KeyB)>>))),
      <<"/type/author", KeyB, "1", "2008-04-01T03:28:50">>,
      <<"/type/edition", PathM, "1", "2008-04-01T03:28:50", Titled, "extra">> }

RefRows ==
    { Row("/type/edition", PathM, WithRefs(refs)) :
        refs \in BoundedSeq({Ref(KeyB), Ref(KeyAB), Ref(KeyRaw)}, MaxRefs) }

Dates ==
    { <<49, 57, 56, 55>>,                                  \* "1987"
      <<77, 97, 114, 99, 104, 32, 49, 57, 56, 55>>,        \* "March 1987"
      <<49, 57, 56, 55, 63>>,                              \* "1987?"
      <<43, 49, 50, 51>>,                                  \* "+123"
      <<195, 169, 57, 56, 55>>,                            \* "e987", e acute
      <<97, 98, 99, 100>>,                                 \* "abcd"
      <<57, 56, 55>>,                                      \* "987"
      <<>> }                                               \* ""

DateRows ==
    { Row("/type/edition", PathM, Dated(d)) : d \in Dates } \cup
    { Row("/type/edition", PathM, Titled),
      Row("/type/edition", PathM,
          Json(("title" :> Str("Book")) @@ ("publish_date" :> [t |-> "null", v |-> 0]))),
      Row("/type/author", KeyB, Named("Jane Doe")) }

(***************************************************************************)
(* main(), from line 116 on.                                               *)
(***************************************************************************)
\* The state at line 116: the environment and database are fresh, the first
\* reader and the write transaction are open.
Start ==
    /\ pc = "pass1"
    /\ pos = 0
    /\ db = EmptyDb
    /\ wtxn = Some(EmptyDb)
    /\ rtxn = None
    /\ cursor = 0
    /\ out = <<>>

Init ==
    /\ header \in {Header5, Header4}
    /\ dump \in BoundedSeq(MainRows, MaxRows)
    /\ overflow_checks \in BOOLEAN
    /\ Start

InitRefs ==
    /\ header = Header5
    /\ dump \in { authors \o <<edition>> :
                    authors \in BoundedSeq(AuthorRows, MaxAuthors),
                    edition \in RefRows }
    /\ overflow_checks \in BOOLEAN
    /\ Start

InitDates ==
    /\ header = Header5
    /\ dump \in BoundedSeq(DateRows, MaxRows)
    /\ overflow_checks \in BOOLEAN
    /\ Start

\* NextPc with the author emission placed before the edition pass.
NextPcAuthorsFirst(p) ==
    CASE p = "pass1" -> "commit"
      [] p = "commit" -> "open2"
      [] p = "open2" -> "emit"
      [] p = "emit" -> "pass2"
      [] p = "pass2" -> "flush"
      [] p = "flush" -> "done"

\* NextPc with the commit of line 124 placed after the edition pass.
NextPcCommitLate(p) ==
    CASE p = "pass1" -> "open2"
      [] p = "open2" -> "pass2"
      [] p = "pass2" -> "commit"
      [] p = "commit" -> "emit"
      [] p = "emit" -> "flush"
      [] p = "flush" -> "done"

\* The statement that follows a phase of main().
NextPc(p) ==
    CASE p = "pass1" -> "commit"
      [] p = "commit" -> "open2"
      [] p = "open2" -> "pass2"
      [] p = "pass2" -> "emit"
      [] p = "emit" -> "flush"
      [] p = "flush" -> "done"

\* An error returned by `?` or a panic: main() ends, its transactions dropped.
Abort ==
    /\ pc' = "aborted"
    /\ wtxn' = None
    /\ rtxn' = None
    /\ UNCHANGED <<header, dump, overflow_checks, pos, db, cursor, out>>

\* Lines 116-122, one iteration.
Pass1 ==
    /\ pc = "pass1"
    /\ LET got == ReadRecord(header, dump, pos)
       IN  IF got = "eof"
           THEN /\ pc' = NextPc(pc)
                /\ UNCHANGED <<header, dump, overflow_checks, pos, db, wtxn, rtxn,
                               cursor, out>>
           ELSE IF got = "err" \/ Pass1Panics(dump[pos + 1])
           THEN Abort
           ELSE /\ wtxn' = Some(Pass1Row(wtxn[1], dump[pos + 1]))
                /\ pos' = pos + 1
                /\ UNCHANGED <<header, dump, overflow_checks, pc, db, rtxn, cursor, out>>

\* Line 124.
Commit ==
    /\ pc = "commit"
    /\ db' = wtxn[1]
    /\ wtxn' = None
    /\ pc' = NextPc(pc)
    /\ UNCHANGED <<header, dump, overflow_checks, pos, rtxn, cursor, out>>

\* Lines 128-134: the second reader, the writer, the read transaction.
OpenPass2 ==
    /\ pc = "open2"
    /\ pos' = 0
    /\ rtxn' = Some(db)
    /\ pc' = NextPc(pc)
    /\ UNCHANGED <<header, dump, overflow_checks, db, wtxn, cursor, out>>

\* Lines 135-171, one iteration.
Pass2 ==
    /\ pc = "pass2"
    /\ LET got == ReadRecord(header, dump, pos)
       IN  IF got = "eof"
           THEN /\ pc' = NextPc(pc)
                /\ UNCHANGED <<header, dump, overflow_checks, pos, db, wtxn, rtxn,
                               cursor, out>>
           ELSE IF got = "err" \/ Pass2Panics(dump[pos + 1], overflow_checks)
           THEN Abort
           ELSE /\ out' = out \o Pass2Row(rtxn[1], dump[pos + 1])
                /\ pos' = pos + 1
                /\ UNCHANGED <<header, dump, overflow_checks, pc, db, wtxn, rtxn, cursor>>

\* Lines 175-182, one iteration.
Emit ==
    /\ pc = "emit"
    /\ LET keys == SortedKeys(DOMAIN rtxn[1])
       IN  IF cursor = Len(keys)
           THEN /\ pc' = NextPc(pc)
                /\ UNCHANGED <<header, dump, overflow_checks, pos, db, wtxn, rtxn,
                               cursor, out>>
           ELSE /\ out' = Append(out, AuthorLine(keys[cursor + 1],
                                                 rtxn[1][keys[cursor + 1]]))
                /\ cursor' = cursor + 1
                /\ UNCHANGED <<header, dump, overflow_checks, pc, pos, db, wtxn, rtxn>>

\* Lines 184-187: the flush, then the transactions and environment dropped.
Flush ==
    /\ pc = "flush"
    /\ pc' = NextPc(pc)
    /\ rtxn' = None
    /\ UNCHANGED <<header, dump, overflow_checks, pos, db, wtxn, cursor, out>>

Next == Pass1 \/ Commit \/ OpenPass2 \/ Pass2 \/ Emit \/ Flush

Spec == Init /\ [][Next]_vars
SpecRefs == InitRefs /\ [][Next]_vars
SpecDates == InitDates /\ [][Next]_vars

(***************************************************************************)
(* Vocabulary of the properties, stated without the operators above.       *)
(***************************************************************************)
StartsWith(s, p) == Len(s) >= Len(p) /\ \A i \in 1..Len(p) : s[i] = p[i]
Rest(s, p) == [i \in 1..(Len(s) - Len(p)) |-> s[i + Len(p)]]

\* a sorts strictly before b, byte by byte, a proper prefix first.
LexBefore(a, b) ==
    \E n \in 0..Len(a) :
        /\ n <= Len(b)
        /\ \A i \in 1..n : a[i] = b[i]
        /\ \/ n = Len(a) /\ n < Len(b)
           \/ n < Len(a) /\ n < Len(b) /\ a[n + 1] < b[n + 1]

\* The index as the program has it: the open write transaction's view, else
\* the committed content.
Index == IF wtxn # None THEN wtxn[1] ELSE db

\* Field 4 of row is JSON with a string name.
HasName(row) ==
    /\ Len(row) >= 5
    /\ row[5].valid
    /\ "name" \in DOMAIN row[5].obj
    /\ row[5].obj["name"].t = "str"

\* Field 4 of row is JSON with a string title (every payload of the inputs
\* that has one has well-typed optional fields).
HasTitle(row) ==
    /\ Len(row) >= 5
    /\ row[5].valid
    /\ "title" \in DOMAIN row[5].obj
    /\ row[5].obj["title"].t = "str"

\* Row i supplies an index entry.
AuthorRowAt(i) == StartsWith(dump[i][2], AuthorsPrefix) /\ HasName(dump[i])
AuthorRowIds == {i \in 1..Len(dump) : AuthorRowAt(i)}
AuthorIdAt(i) == Rest(dump[i][2], AuthorsPrefix)
ExpectedKeys == {AuthorIdAt(i) : i \in AuthorRowIds}
LastRowOf(k) ==
    CHOOSE i \in AuthorRowIds :
        /\ AuthorIdAt(i) = k
        /\ \A j \in AuthorRowIds : AuthorIdAt(j) = k => j <= i

\* Row is an edition row that pass 2 is to turn into a Book line.
BookRow(row) ==
    /\ row[1] = "/type/edition"
    /\ StartsWith(row[2], BooksPrefix)
    /\ HasTitle(row)

IsAuthorLine(l) == l["type"] = "author"
IsBookLine(l) == l["type"] = "book"
AuthorLines == SelectSeq(out, IsAuthorLine)
AuthorsOf(line) == IF "authors" \in DOMAIN line THEN line["authors"] ELSE <<>>
RefsOf(row) ==
    IF "authors" \in DOMAIN row[5].obj /\ row[5].obj["authors"].t = "arr"
    THEN row[5].obj["authors"].v
    ELSE <<>>
DateOf(row) ==
    IF "publish_date" \in DOMAIN row[5].obj /\ row[5].obj["publish_date"].t = "str"
    THEN Some(row[5].obj["publish_date"].v)
    ELSE None

\* The row the reader of the current pass yields next, when it yields one.
Reading == pc \in {"pass1", "pass2"} /\ pos < Len(dump)
Current == dump[pos + 1]
WellCounted(row) == Len(row) = Len(header) /\ Len(row) = 5
\* The step wrote exactly one line, a Book line.
WroteBook == Len(out') = Len(out) + 1 /\ IsBookLine(out'[Len(out')])
NewLine == out'[Len(out')]

(***************************************************************************)
(* C1.  Once pass 1 has committed, the index holds exactly the stripped    *)
(* identifiers of the rows whose field 1 starts with "/authors/" and whose *)
(* field 4 is JSON with a string name, each with the name of the last such *)
(* row in file order.                                                      *)
(***************************************************************************)
C1_LastWriteWins ==
    pc \in {"open2", "pass2", "emit", "flush", "done"} =>
        /\ DOMAIN db = ExpectedKeys
        /\ \A k \in DOMAIN db : db[k] = dump[LastRowOf(k)][5].obj["name"].v

C1_Witness ==
    /\ pc = "open2"
    /\ Len(dump) = 2
    /\ AuthorRowAt(1) /\ AuthorRowAt(2)
    /\ AuthorIdAt(1) = AuthorIdAt(2)
    /\ dump[1][5] # dump[2][5]
    /\ db[AuthorIdAt(2)] = dump[2][5].obj["name"].v

(***************************************************************************)
(* C2.  On a run that completes, the Author lines are the index entries,   *)
(* each once, in strictly ascending byte order of identifier, and their    *)
(* identifiers are those of the qualifying author rows.                    *)
(***************************************************************************)
C2_AuthorsSortedOnce ==
    pc = "done" =>
        /\ Len(AuthorLines) = Cardinality(DOMAIN db)
        /\ \A i \in 1..Len(AuthorLines) :
              /\ AuthorLines[i]["id"] \in DOMAIN db
              /\ AuthorLines[i]["name"] = db[AuthorLines[i]["id"]]
        /\ \A i \in 1..Len(AuthorLines) : \A j \in 1..Len(AuthorLines) :
              i < j => LexBefore(AuthorLines[i]["id"], AuthorLines[j]["id"])
        /\ {AuthorLines[i]["id"] : i \in 1..Len(AuthorLines)} = ExpectedKeys

C2_Witness ==
    /\ pc = "done"
    /\ Len(dump) = 2
    /\ AuthorRowAt(1) /\ AuthorRowAt(2)
    /\ LexBefore(AuthorIdAt(2), AuthorIdAt(1))
    /\ Len(AuthorLines) = 2
    /\ AuthorLines[1]["id"] = AuthorIdAt(2)

(***************************************************************************)
(* C3.  No Book line follows an Author line, and an Author line is written *)
(* only once the edition pass has read the whole dump.                     *)
(***************************************************************************)
C3_BooksBeforeAuthors ==
    /\ \A i \in 1..Len(out) : \A j \in 1..Len(out) :
          i < j /\ IsAuthorLine(out[i]) => IsAuthorLine(out[j])
    /\ (\E i \in 1..Len(out) : IsAuthorLine(out[i])) =>
          pc \in {"emit", "flush", "done"} /\ pos = Len(dump)

C3_Witness ==
    /\ pc = "done"
    /\ Len(dump) = 2
    /\ Len(out) = 2
    /\ IsBookLine(out[1]) /\ out[1]["name"] = "Book"
    /\ IsAuthorLine(out[2]) /\ out[2]["name"] = "Jane Doe"

(***************************************************************************)
(* C4.  Each iteration of pass 2 writes a Book line if and only if the row *)
(* has field 0 "/type/edition", field 1 starting with "/books/" and a book *)
(* payload; it writes exactly one, at the end of the output, with the      *)
(* stripped identifier, and writes nothing for any other row.              *)
(***************************************************************************)
C4_BookLinePerEditionRow ==
    [][(pc = "pass2" /\ pos < Len(dump) /\ WellCounted(Current)) =>
          IF BookRow(Current)
          THEN /\ WroteBook
               /\ SubSeq(out', 1, Len(out)) = out
               /\ NewLine["id"] = Rest(Current[2], BooksPrefix)
          ELSE out' = out]_vars

(***************************************************************************)
(* C5.  The authors of a Book line are the names the index holds for the   *)
(* references that carry the "/authors/" prefix and whose stripped key is  *)
(* in the index, in listing order; a reference that is dropped does not    *)
(* abort the run, and authors is no longer than the references.            *)
(***************************************************************************)
Resolvable(refs) ==
    {i \in 1..Len(refs) :
        /\ StartsWith(refs[i]["key"], AuthorsPrefix)
        /\ Rest(refs[i]["key"], AuthorsPrefix) \in DOMAIN db}
NthOf(S, n) == CHOOSE i \in S : Cardinality({g \in S : g < i}) = n - 1
ExpectedAuthors(refs) ==
    [n \in 1..Cardinality(Resolvable(refs)) |->
        db[Rest(refs[NthOf(Resolvable(refs), n)]["key"], AuthorsPrefix)]]

C5_AuthorsResolved ==
    [][(pc = "pass2" /\ pos < Len(dump) /\ WellCounted(Current) /\ BookRow(Current)
        /\ (DateOf(Current) = None \/ Len(DateOf(Current)[1]) >= 4)) =>
          /\ pc' = "pass2"
          /\ WroteBook
          /\ AuthorsOf(NewLine) = ExpectedAuthors(RefsOf(Current))
          /\ Len(AuthorsOf(NewLine)) <= Len(RefsOf(Current))]_vars

C5_Witness ==
    /\ pc = "emit"
    /\ Len(dump) = 3
    /\ Len(RefsOf(dump[3])) = 3
    /\ RefsOf(dump[3])[1]["key"] = KeyB
    /\ ~StartsWith(RefsOf(dump[3])[2]["key"], AuthorsPrefix)
    /\ RefsOf(dump[3])[3]["key"] = KeyAB
    /\ Len(out) = 1
    /\ AuthorsOf(out[1]) = <<"Joan Roe", "Jane Doe">>

(***************************************************************************)
(* C6.  An edition whose publish_date ends in 4 digits gets that number as *)
(* publish_year; one whose publish_date is absent or shorter than 4 bytes  *)
(* is written without publish_year, and the run goes on.                   *)
(***************************************************************************)
EndsIn4Digits(d) == Len(d) >= 4 /\ \A i \in (Len(d) - 3)..Len(d) : IsDigit(d[i])
Last4Value(d) ==
    (d[Len(d) - 3] - 48) * 1000 + (d[Len(d) - 2] - 48) * 100
    + (d[Len(d) - 1] - 48) * 10 + (d[Len(d)] - 48)

C6_PublishYear ==
    [][(pc = "pass2" /\ pos < Len(dump) /\ WellCounted(Current) /\ BookRow(Current)) =>
          /\ (DateOf(Current) # None /\ EndsIn4Digits(DateOf(Current)[1])) =>
                /\ WroteBook
                /\ "publish_year" \in DOMAIN NewLine
                /\ NewLine["publish_year"] = Last4Value(DateOf(Current)[1])
          /\ (DateOf(Current) = None \/ Len(DateOf(Current)[1]) < 4) =>
                /\ pc' = "pass2"
                /\ WroteBook
                /\ "publish_year" \notin DOMAIN NewLine]_vars

(***************************************************************************)
(* C7.  As claimed: a row whose type is neither "/type/edition" nor        *)
(* "/type/author" writes no line and leaves the index as it was, whatever  *)
(* its fields 1 and 4 are.                                                 *)
(***************************************************************************)
OtherType(row) == row[1] \notin {"/type/edition", "/type/author"}

C7_OtherRowsInert ==
    [][(Reading /\ WellCounted(Current) /\ OtherType(Current)) =>
          out' = out /\ Index' = Index]_vars

(***************************************************************************)
(* C7, amended.  A row whose type is neither "/type/edition" nor           *)
(* "/type/author" writes no Book line and does not abort; it leaves the    *)
(* index as it was unless its field 1 starts with "/authors/" and its      *)
(* field 4 is JSON with a string name, and then pass 1 indexes it under    *)
(* the stripped identifier like any author row.                            *)
(***************************************************************************)
C7_OtherRowsByPrefix ==
    [][(Reading /\ WellCounted(Current) /\ OtherType(Current)) =>
          /\ pc' = pc
          /\ out' = out
          /\ IF pc = "pass1" /\ StartsWith(Current[2], AuthorsPrefix) /\ HasName(Current)
             THEN /\ DOMAIN Index' = DOMAIN Index \cup {Rest(Current[2], AuthorsPrefix)}
                  /\ Index'[Rest(Current[2], AuthorsPrefix)] = Current[5].obj["name"].v
                  /\ \A k \in DOMAIN Index :
                        k # Rest(Current[2], AuthorsPrefix) => Index'[k] = Index[k]
             ELSE Index' = Index]_vars

C7_Witness ==
    /\ pc = "done"
    /\ Len(dump) = 2
    /\ OtherType(dump[1]) /\ StartsWith(dump[1][2], BooksPrefix) /\ HasTitle(dump[1])
    /\ OtherType(dump[2]) /\ AuthorRowAt(2)
    /\ Len(out) = 1
    /\ IsAuthorLine(out[1])

(***************************************************************************)
(* C8.  A row whose payload does not parse is skipped: in pass 1 a row     *)
(* with the "/authors/" prefix and no JSON with a string name leaves the   *)
(* index as it was, in pass 2 an edition row with the "/books/" prefix and *)
(* no JSON with a string title writes nothing, and either pass goes on to  *)
(* the next row.                                                           *)
(***************************************************************************)
C8_MalformedSkipped ==
    [][(Reading /\ WellCounted(Current)) =>
          /\ (pc = "pass1" /\ StartsWith(Current[2], AuthorsPrefix) /\ ~HasName(Current)) =>
                pc' = pc /\ pos' = pos + 1 /\ Index' = Index /\ out' = out
          /\ (pc = "pass2" /\ Current[1] = "/type/edition"
              /\ StartsWith(Current[2], BooksPrefix) /\ ~HasTitle(Current)) =>
                pc' = pc /\ pos' = pos + 1 /\ Index' = Index /\ out' = out]_vars

C8_Witness ==
    /\ pc = "done"
    /\ Len(dump) = 2
    /\ StartsWith(dump[1][2], AuthorsPrefix) /\ ~HasName(dump[1])
    /\ AuthorRowAt(2)
    /\ Len(out) = 1
    /\ out[1]["id"] = AuthorIdAt(2)

(***************************************************************************)
(* C9.  As claimed: a row whose field count is not the header's is skipped *)
(* and the pass goes on to the next row.                                   *)
(***************************************************************************)
C9_WrongCountSkipped ==
    [][(Reading /\ Len(Current) # Len(header)) =>
          pc' = pc /\ pos' = pos + 1 /\ Index' = Index /\ out' = out]_vars

(***************************************************************************)
(* C9, amended.  A row whose field count is not the header's fails the     *)
(* read of pass 1 and ends the run there: the rows before it are read, it  *)
(* and the rows after it are not, nothing is committed and no line is      *)
(* written.                                                                *)
(***************************************************************************)
WrongCount == {i \in 1..Len(dump) : Len(dump[i]) # Len(header)}

C9_WrongCountAborts ==
    WrongCount # {} =>
        /\ pc \in {"pass1", "aborted"}
        /\ \A i \in WrongCount : pos < i
        /\ db = EmptyDb
        /\ rtxn = None
        /\ out = <<>>

C9_Witness ==
    /\ pc = "aborted"
    /\ Len(dump) = 2
    /\ WrongCount = {2}
    /\ AuthorRowAt(1)
    /\ pos = 1
    /\ wtxn = None

(***************************************************************************)
(* C10.  Until pass 1 has committed nothing is read from the index and no  *)
(* line is written; pass 2 and the emission read a snapshot equal to the   *)
(* committed content, which no later step changes; so each name of a Book  *)
(* line is the committed value of one of the row's references.             *)
(***************************************************************************)
C10_CommitBeforeRead ==
    /\ [](wtxn # None => rtxn = None /\ cursor = 0 /\ out = <<>>)
    /\ [](pc \in {"pass2", "emit"} => wtxn = None /\ rtxn # None /\ rtxn[1] = db)
    /\ [][(wtxn = None => db' = db /\ wtxn' = None)
          /\ (pc = "pass2" /\ Len(out') > Len(out) =>
                \A n \in 1..Len(AuthorsOf(NewLine)) :
                    \E i \in 1..Len(RefsOf(Current)) :
                        /\ StartsWith(RefsOf(Current)[i]["key"], AuthorsPrefix)
                        /\ Rest(RefsOf(Current)[i]["key"], AuthorsPrefix) \in DOMAIN db
                        /\ db[Rest(RefsOf(Current)[i]["key"], AuthorsPrefix)]
                              = AuthorsOf(NewLine)[n])]_vars

C10_Witness ==
    /\ pc = "flush"
    /\ Len(dump) = 2
    /\ AuthorRowAt(1)
    /\ Len(out) = 2
    /\ AuthorsOf(out[1]) = <<db[AuthorIdAt(1)]>>
    /\ rtxn = Some(db)

====
